---- MODULE Spec2Model ----
(***************************************************************************)
(* A model of the BA-Agent core: the BibliographyManager (bib.py) with the *)
(* citeproc stub it drives, the chunker, the fallback encoder, build and   *)
(* load_embeddings (index.py), the QueryEngine (query.py), the Reviewer    *)
(* with CITATION_PATTERN (review.py) and the Exporter (export.py).         *)
(*                                                                         *)
(* Text is modelled as a sequence of tokens: single characters where the   *)
(* code inspects characters (labels, digits, brackets, chunk text) and     *)
(* whole words for metadata fields the code only copies.                   *)
(***************************************************************************)
EXTENDS Integers, Sequences, FiniteSets, TLC

VARIABLES
    \* BibliographyManager
    order,        \* self._order: source_id -> reference number
    bibOrder,     \* self._bibliography._order: list of cited keys
    formatted,    \* self._formatted: reference number -> rendered text
    ret,          \* the value the last call returned
    log,          \* history: the cite calls since construction or the last reset
    resetSeen,    \* history: reset() has been called
    orderBefore,  \* history: self._order as reset() found it, kept until the next cite
    \* IndexBuilder.chunk_text
    chunk_min_size,   \* settings.chunk_min_size
    chunk_max_size,   \* settings.chunk_max_size
    chunk_overlap,    \* settings.chunk_overlap
    records,          \* the page records given to chunk_text
    recIdx,           \* the record the for loop is at (1-based)
    start,            \* the window start in the current record
    chunks,           \* the list of chunks built so far
    chunk_id,         \* the running chunk id
    cpc,              \* where chunk_text is: "idle", "loop", "done"
    spans,            \* history: per chunk its record index and the start and end it was cut at
    \* EmbeddingBackend (fallback encoder)
    random_seed,      \* self.random_seed
    rng,              \* the state of the generator of the latest _encode_fallback call
    encLast,          \* the latest encode call: its texts and the vectors it returned
    encRef,           \* history: an earlier encode call kept for comparison
    \* QueryEngine
    qchunks,          \* self.chunks: the chunk metadata loaded from the chunk file
    embeddings,       \* self.index: the stored vectors, one row per built chunk
    nativeIndex,      \* faiss is importable and self.index has a search method
    tieRank,          \* the order in which the sort leaves positions of equal score
    settings_top_k,   \* settings.top_k
    searchRet,        \* the latest _search call: query, top_k, positions kept, results
    lastCall,         \* the latest ask or chapter call and what it returned
    prevCall,         \* history: the ask or chapter call before the latest
    returned,         \* history: every call made so far with the text it returned
    askedBefore,      \* history: the latest call had been made before with the same arguments
    \* Reviewer
    revText,          \* self.text
    warnings,         \* self.warnings: the ReviewWarning list
    emitted,          \* history: the warnings the latest review() call appended
    reviews,          \* history: the number of review() calls made
    matched,          \* the latest CITATION_PATTERN.fullmatch(self.text): "unset", TRUE, FALSE
    \* the files of Settings: pages_file, chunk_file, the vector file
    pages_file,       \* NoFile, or the page records of the pages file
    chunk_file,       \* NoFile, or the chunk list of the chunk file
    index_file,       \* NoFile, or the vectors of the faiss index file
    embedding_file,   \* NoFile, or the vectors of the .npz file
    faiss,            \* the faiss module is importable
    fileCall,         \* the latest build() or load_embeddings() call and its outcome
    \* Exporter
    exportCall        \* the latest append_bibliography or convert call and its outcome

bibVars == <<order, bibOrder, formatted, ret, log, resetSeen, orderBefore>>

chunkVars == <<chunk_min_size, chunk_max_size, chunk_overlap, records, recIdx, start,
               chunks, chunk_id, cpc, spans>>

encVars == <<random_seed, rng, encLast, encRef>>

indexVars == <<qchunks, embeddings, nativeIndex, tieRank, settings_top_k>>

queryVars == <<indexVars, searchRet, lastCall, prevCall, returned, askedBefore>>

reviewVars == <<revText, warnings, emitted, reviews, matched>>

fileVars == <<pages_file, chunk_file, index_file, embedding_file, faiss, fileCall>>

exportVars == <<exportCall>>

vars == <<bibVars, chunkVars, encVars, queryVars, reviewVars, fileVars, exportVars>>

otherThanBib == <<chunkVars, encVars, queryVars, reviewVars, fileVars, exportVars>>

otherThanChunker == <<bibVars, encVars, queryVars, reviewVars, fileVars, exportVars>>

otherThanEncoder == <<bibVars, chunkVars, queryVars, reviewVars, fileVars, exportVars>>

otherThanQuery == <<chunkVars, encVars, reviewVars, fileVars, exportVars>>

otherThanReviewer == <<bibVars, chunkVars, encVars, queryVars, fileVars, exportVars>>

otherThanFiles == <<bibVars, chunkVars, encVars, queryVars, reviewVars, exportVars>>

otherThanExporter == <<chunkVars, encVars, queryVars, reviewVars, fileVars>>

\* ------------------------------------------------------------------ bounds

MaxCalls == 3

MaxTextLen == 4

MaxRecords == 2

\* the vector dimension, 384 in the code, scaled down
dimension == 3

MaxTexts == 2

MaxBytes == 2

\* the number of states of the model's pseudo-random generator
RngModulus == 16

MaxEmb == 3

\* the rows of the index in the runs of ask and chapter
MaxCorpus == 2

\* the fragments a reviewed text is put together from
MaxFrags == 3

\* the review() calls on one Reviewer
MaxReviews == 2

\* the cap on the chunks list: one more than any run that moves forward needs
MaxChunks == MaxRecords * MaxTextLen + 1

\* ------------------------------------------------------------ Python helpers

None == "None"

Range(f) == {f[x] : x \in DOMAIN f}

Min2(a, b) == IF a <= b THEN a ELSE b

Max2(a, b) == IF a >= b THEN a ELSE b

DigitChars == <<"0", "1", "2", "3", "4", "5", "6", "7", "8", "9">>

RECURSIVE PyStr(_)
\* str(n) of a non-negative int: its decimal digits
PyStr(n) ==
    IF n < 10 THEN <<DigitChars[n + 1]>>
    ELSE PyStr(n \div 10) \o <<DigitChars[(n % 10) + 1]>>

DigitValue(c) == CHOOSE d \in 0..9 : DigitChars[d + 1] = c

RECURSIVE PyInt(_)
\* int(s) of a string of decimal digits
PyInt(s) ==
    IF Len(s) = 1 THEN DigitValue(s[1])
    ELSE 10 * PyInt(SubSeq(s, 1, Len(s) - 1)) + DigitValue(s[Len(s)])

\* s.split(sep)[0]: the part before the first occurrence of the token sep
SplitFirst(s, sep) ==
    IF \E i \in 1..Len(s) : s[i] = sep
    THEN SubSeq(s, 1, (CHOOSE i \in 1..Len(s) :
                          s[i] = sep /\ \A j \in 1..(i - 1) : s[j] # sep) - 1)
    ELSE s

\* s.strip(chars): drop the leading and trailing tokens that are in chars
PyStrip(s, chars) ==
    LET keep == {i \in 1..Len(s) : s[i] \notin chars}
    IN  IF keep = {} THEN <<>>
        ELSE SubSeq(s, CHOOSE i \in keep : \A j \in keep : i <= j,
                       CHOOSE i \in keep : \A j \in keep : i >= j)

RECURSIVE JoinWith(_, _)
\* sep.join(parts), parts a list of token sequences
JoinWith(parts, sep) ==
    IF parts = <<>> THEN <<>>
    ELSE IF Len(parts) = 1 THEN parts[1]
    ELSE parts[1] \o sep \o JoinWith(Tail(parts), sep)

\* dict.get(key) with None for an absent key
DictGet(d, key) == IF key \in DOMAIN d THEN d[key] ELSE None

\* the number a registry holds for a key, 0 for none
DictGetNumber(d, key) == IF key \in DOMAIN d THEN d[key] ELSE 0

\* Python truthiness of a value got from a metadata record
Truthy(v) == v # None /\ v # ""

\* ------------------------------------------------------------- metadata

SourceIds == {"doc1", "doc2", "doc3"}

\* an optional page: NoPage for None, <<n>> for the int n
NoPage == <<>>

Pages == {NoPage, <<0>>, <<45>>}

\* the metadata file: records for doc1 and doc2, none for doc3
LoadSources ==
    << [id |-> "doc1", type |-> "report",
        title |-> "Digitale Lernplattformen an Hochschulen",
        author |-> << [family |-> "Mueller", given |-> "J."],
                      [family |-> "Schmidt", given |-> "P."] >>,
        issued |-> [raw |-> "2021"],
        publisher |-> "Springer"],
       [id |-> "doc2", type |-> "article-journal",
        title |-> "Adoption von E-Learning-Technologien",
        author |-> << [family |-> "Klein", given |-> "A."] >>,
        issued |-> [raw |-> "2022"]] @@ ("container-title" :> "IEEE Access") >>

\* CiteProcJSON._items
SourceItems ==
    [k \in {LoadSources[i].id : i \in {j \in 1..Len(LoadSources) : "id" \in DOMAIN LoadSources[j]}}
        |-> LoadSources[CHOOSE i \in 1..Len(LoadSources) :
                /\ "id" \in DOMAIN LoadSources[i]
                /\ LoadSources[i].id = k
                /\ \A j \in (i + 1)..Len(LoadSources) :
                       "id" \in DOMAIN LoadSources[j] => LoadSources[j].id # k]]

\* a fallback record that carries the key as its title
get_referenceTitled(key) ==
    IF key \in DOMAIN SourceItems THEN SourceItems[key] ELSE [id |-> key, title |-> key]

\* CiteProcJSON.get_reference
get_reference(key) == IF key \in DOMAIN SourceItems THEN SourceItems[key] ELSE [id |-> key]


\* --------------------------------------------------- citeproc stub: rendering

\* the name of one author: the literal, else given and family joined and stripped
AuthorLabel(author) ==
    LET literal == DictGet(author, "literal")
        given   == DictGet(author, "given")
        family  == DictGet(author, "family")
    IN  IF Truthy(literal) THEN <<literal>>
        ELSE PyStrip((IF Truthy(given) THEN <<given>> ELSE <<>>)
                     \o (IF Truthy(family) THEN <<family>> ELSE <<>>), {" "})

RECURSIVE AuthorParts(_)
AuthorParts(authors) ==
    IF authors = <<>> THEN <<>>
    ELSE LET rest == AuthorParts(Tail(authors))
             part == AuthorLabel(Head(authors))
         IN  IF part = <<>> THEN rest ELSE <<part>> \o rest

\* the typographic quotes U+201C and U+201D that _format_entry puts round the title
LeftQuote == "(ldquo)"

RightQuote == "(rdquo)"

\* CitationStylesBibliography._format_names
format_names(entry) ==
    IF "author" \notin DOMAIN entry THEN <<"Unbekannt">>
    ELSE LET joined == JoinWith(AuthorParts(entry.author), <<" and ">>)
         IN  IF joined = <<>> THEN <<"Unbekannt">> ELSE joined

\* CitationStylesBibliography._format_entry
format_entry(entry) ==
    LET author    == format_names(entry)
        title     == IF "title" \in DOMAIN entry THEN entry.title ELSE "Ohne Titel"
        container == IF Truthy(DictGet(entry, "container-title"))
                     THEN DictGet(entry, "container-title")
                     ELSE DictGet(entry, "publisher")
        year      == IF "issued" \in DOMAIN entry /\ "raw" \in DOMAIN entry.issued
                     THEN entry.issued.raw ELSE ""
        components == <<author, <<LeftQuote, title, RightQuote>>>>
                      \o (IF Truthy(container) THEN <<<<container>>>> ELSE <<>>)
                      \o (IF Truthy(year) THEN <<<<year>>>> ELSE <<>>)
    IN  JoinWith(components, <<", ">>)

\* CitationStylesBibliography.cite for a citation of one item
StubCite(keys, key) ==
    IF \E i \in 1..Len(keys) : keys[i] = key THEN keys ELSE Append(keys, key)

\* CitationStylesBibliography.bibliography: one BibliographyEntry per key, in order
StubBibliography(keys) ==
    [i \in 1..Len(keys) |-> [key |-> keys[i], text |-> format_entry(get_reference(keys[i]))]]

\* ------------------------------------------------------ BibliographyManager

\* a label that tests the page for truth instead of for None: page 0 is dropped
CitationLabelTruthiness(reference_id, page) ==
    IF page = NoPage \/ page = <<0>> THEN <<"[">> \o reference_id \o <<"]">>
    ELSE <<"[">> \o reference_id \o <<",", " ", "p", ".", " ">> \o PyStr(page[1]) \o <<"]">>

\* CitationLabel.label
CitationLabel(reference_id, page) ==
    IF page = NoPage THEN <<"[">> \o reference_id \o <<"]">>
    ELSE <<"[">> \o reference_id \o <<",", " ", "p", ".", " ">> \o PyStr(page[1]) \o <<"]">>

\* a cite that takes a fresh number at every call, also for a source it knows
ReferenceNumberAlwaysFresh(ord, source_id) == Cardinality(DOMAIN ord) + 1

\* the number cite gives source_id in a registry ord
ReferenceNumber(ord, source_id) ==
    IF source_id \in DOMAIN ord THEN ord[source_id] ELSE Cardinality(DOMAIN ord) + 1

\* a registry that counts from 0: the new number is len(self._order)
OrderAfterCiteZeroBased(ord, source_id) ==
    IF source_id \in DOMAIN ord THEN ord
    ELSE ord @@ (source_id :> Cardinality(DOMAIN ord))

\* self._order after cite(source_id)
OrderAfterCite(ord, source_id) ==
    IF source_id \in DOMAIN ord THEN ord
    ELSE ord @@ (source_id :> ReferenceNumber(ord, source_id))

\* a cite that hands every citation to a renderer that keeps every key it is given
KeysAfterCiteAlways(ord, keys, source_id) == Append(keys, source_id)

\* self._bibliography._order after cite(source_id)
KeysAfterCite(ord, keys, source_id) ==
    IF source_id \in DOMAIN ord THEN keys ELSE StubCite(keys, source_id)

\* the label cite(source_id, page) returns
CiteLabel(ord, source_id, page) ==
    CitationLabel(PyStr(ReferenceNumber(ord, source_id)), page)

\* one line of bibliography(): f"[{ref_id}] {text}"
EntryLine(ref_id, text) == <<"[">> \o PyStr(ref_id) \o <<"]", " ">> \o text

\* the sort key of bibliography(): int(value.split("]")[0].strip("["))
EntrySortKey(value) == PyInt(PyStrip(SplitFirst(value, "]"), {"["}))

RECURSIVE InsertEntry(_, _)
\* one step of a stable insertion: x goes after every line whose key is <= its own
InsertEntry(sorted, x) ==
    IF sorted = <<>> THEN <<x>>
    ELSE IF EntrySortKey(x) < EntrySortKey(sorted[Len(sorted)])
         THEN Append(InsertEntry(SubSeq(sorted, 1, Len(sorted) - 1), x),
                     sorted[Len(sorted)])
         ELSE Append(sorted, x)

\* a sort with reverse=True
SortEntriesDescending(s) ==
    LET RECURSIVE Asc(_)
        Asc(t) == IF t = <<>> THEN <<>>
                  ELSE InsertEntry(Asc(SubSeq(t, 1, Len(t) - 1)), t[Len(t)])
        a == Asc(s)
    IN  [i \in 1..Len(a) |-> a[Len(a) + 1 - i]]

RECURSIVE SortEntries(_)
\* entries.sort(key=...): stable, ascending
SortEntries(s) ==
    IF s = <<>> THEN <<>>
    ELSE InsertEntry(SortEntries(SubSeq(s, 1, Len(s) - 1)), s[Len(s)])

RECURSIVE CollectEntries(_, _)
\* the loop of bibliography(): the lines of the items whose key has a number
CollectEntries(ord, items) ==
    IF items = <<>> THEN <<>>
    ELSE LET item == Head(items)
             rest == CollectEntries(ord, Tail(items))
         IN  IF item.key \notin DOMAIN ord THEN rest
             ELSE <<EntryLine(ord[item.key], item.text)>> \o rest

\* what bibliography() returns
BibliographyEntries(ord, keys) == SortEntries(CollectEntries(ord, StubBibliography(keys)))

\* self._formatted after bibliography()
FormattedAfter(ord, keys, fmt) ==
    LET items == StubBibliography(keys)
        hit   == {i \in 1..Len(items) : items[i].key \in DOMAIN ord}
        nums  == {ord[items[i].key] : i \in hit}
    IN  [n \in DOMAIN fmt \cup nums |->
            IF n \in nums
            THEN items[CHOOSE i \in hit : ord[items[i].key] = n
                          /\ \A j \in hit : ord[items[j].key] = n => j <= i].text
            ELSE fmt[n]]

RECURSIVE SortedKeys(_)
\* sorted(keys) of a set of ints
SortedKeys(S) ==
    IF S = {} THEN <<>>
    ELSE LET m == CHOOSE x \in S : \A y \in S : x <= y
         IN  <<m>> \o SortedKeys(S \ {m})

\* what iter_formatted() yields
IterFormattedPairs(ord, keys, fmt) ==
    LET f == IF DOMAIN fmt = {} THEN FormattedAfter(ord, keys, fmt) ELSE fmt
        ks == SortedKeys(DOMAIN f)
    IN  [i \in 1..Len(ks) |-> <<ks[i], f[ks[i]]>>]

\* ------------------------------------------------ EmbeddingBackend: fallback

\* the seeds a backend is constructed with: the default 42 and another one
Seeds == {42, 7}

\* the utf-8 bytes of the texts: a text of n bytes is n times the letter "a" (97)
EncodedText(n) == [i \in 1..n |-> 97]

EncodedTexts == {EncodedText(n) : n \in 0..MaxBytes}

TextLists == UNION {[1..n -> EncodedTexts] : n \in 0..MaxTexts}

\* np.random.default_rng(seed): the state of a fresh generator
default_rng(seed) == (seed * 7 + 1) % RngModulus

\* one step of the generator
RngStep(g) == (g * 5 + 3) % RngModulus

RECURSIVE RngRandom(_, _)
\* rng.random(n): n values drawn one after the other, and the generator state after
RngRandom(g, n) ==
    IF n = 0 THEN [values |-> <<>>, state |-> g]
    ELSE LET r == RngRandom(g, n - 1)
         IN  [values |-> Append(r.values, RngStep(r.state)), state |-> RngStep(r.state)]

RECURSIVE SumSeq(_)
SumSeq(v) == IF v = <<>> THEN 0 ELSE v[1] + SumSeq(Tail(v))

\* the histogram of a text: bucket (byte_index + byte) % dimension counts up per byte
Histogram(encoded) ==
    [b \in 1..dimension |->
        Cardinality({i \in 1..Len(encoded) : ((i - 1) + encoded[i]) % dimension = b - 1})]

\* a row divided by its norm, kept as the row and the square of the norm (1 for norm 0)
Normalised(row) ==
    LET n2 == SumSeq([i \in 1..Len(row) |-> row[i] * row[i]])
    IN  [row |-> row, norm2 |-> IF n2 = 0 THEN 1 ELSE n2]

RECURSIVE FallbackRows(_, _)
\* the loop over the texts: the rows before normalisation and the generator state
FallbackRows(texts, g) ==
    IF texts = <<>> THEN [rows |-> <<>>, state |-> g]
    ELSE LET before == FallbackRows(SubSeq(texts, 1, Len(texts) - 1), g)
             hist   == Histogram(texts[Len(texts)])
             drawn  == RngRandom(before.state, dimension)
         IN  IF SumSeq(hist) = 0
             THEN [rows |-> Append(before.rows, drawn.values), state |-> drawn.state]
             ELSE [rows |-> Append(before.rows, hist), state |-> before.state]

\* a generator made once and shared by all calls: a call goes on where the last stopped
RngShared == rng

\* the generator a call starts with: a new one from the configured seed
RngAtCall == default_rng(random_seed)

\* EmbeddingBackend._encode_fallback: the vectors returned
encode_fallback(texts) ==
    LET rows == FallbackRows(texts, RngAtCall).rows
    IN  [i \in 1..Len(rows) |-> Normalised(rows[i])]

NoCall == [texts |-> <<>>, vectors |-> <<>>, made |-> FALSE]

\* a backend before any encode call
IdleEncoder ==
    /\ random_seed = 42
    /\ rng = 0
    /\ encLast = NoCall
    /\ encRef = NoCall

InitEncoder ==
    /\ random_seed \in Seeds
    /\ rng = 0
    /\ encLast = NoCall
    /\ encRef = NoCall

\* encode(texts) on the fallback backend; keep: remember this call for comparison
Encode(texts, keep) ==
    /\ keep => ~encRef.made
    /\ encLast' = [texts |-> texts, vectors |-> encode_fallback(texts), made |-> TRUE]
    /\ rng' = FallbackRows(texts, RngAtCall).state
    /\ encRef' = IF keep THEN encLast' ELSE encRef
    /\ UNCHANGED random_seed
    /\ UNCHANGED otherThanEncoder

NextEncoder == \E texts \in TextLists, keep \in BOOLEAN : Encode(texts, keep)


\* ------------------------------------------------- BibliographyManager calls

InitBib ==
    /\ order = <<>>
    /\ bibOrder = <<>>
    /\ formatted = <<>>
    /\ ret = [op |-> "init", value |-> None]
    /\ log = <<>>
    /\ resetSeen = FALSE
    /\ orderBefore = <<>>

\* the chunker before any chunk_text call
IdleChunker ==
    /\ chunk_min_size = 800
    /\ chunk_max_size = 1200
    /\ chunk_overlap = 100
    /\ records = <<>>
    /\ recIdx = 1
    /\ start = 0
    /\ chunks = <<>>
    /\ chunk_id = 0
    /\ cpc = "idle"
    /\ spans = <<>>

Cite(source_id, page) ==
    /\ Len(log) < MaxCalls
    /\ order' = OrderAfterCite(order, source_id)
    /\ bibOrder' = KeysAfterCite(order, bibOrder, source_id)
    /\ ret' = [op |-> "cite", value |-> CiteLabel(order, source_id, page)]
    /\ log' = Append(log, [source_id |-> source_id, page |-> page,
                           label |-> CiteLabel(order, source_id, page),
                           before |-> DictGetNumber(orderBefore, source_id)])
    /\ orderBefore' = <<>>
    /\ UNCHANGED <<formatted, resetSeen>>
    /\ UNCHANGED otherThanBib

Bibliography ==
    /\ ret' = [op |-> "bibliography", value |-> BibliographyEntries(order, bibOrder)]
    /\ formatted' = FormattedAfter(order, bibOrder, formatted)
    /\ UNCHANGED <<order, bibOrder, log, resetSeen, orderBefore>>
    /\ UNCHANGED otherThanBib

CitationOrder ==
    /\ ret' = [op |-> "citation_order", value |-> order]
    /\ UNCHANGED <<order, bibOrder, formatted, log, resetSeen, orderBefore>>
    /\ UNCHANGED otherThanBib

\* a reset that replaces the renderer and clears the cache but keeps self._order
ResetKeepsOrder ==
    /\ bibOrder' = <<>>
    /\ order' = order
    /\ formatted' = <<>>
    /\ ret' = [op |-> "reset", value |-> None]
    /\ log' = <<>>
    /\ resetSeen' = TRUE
    /\ orderBefore' = order
    /\ UNCHANGED otherThanBib

Reset ==
    /\ bibOrder' = <<>>
    /\ order' = <<>>
    /\ formatted' = <<>>
    /\ ret' = [op |-> "reset", value |-> None]
    /\ log' = <<>>
    /\ resetSeen' = TRUE
    /\ orderBefore' = order
    /\ UNCHANGED otherThanBib

IterFormatted ==
    /\ ret' = [op |-> "iter_formatted",
               value |-> IterFormattedPairs(order, bibOrder, formatted)]
    /\ formatted' = IF DOMAIN formatted = {}
                    THEN FormattedAfter(order, bibOrder, formatted)
                    ELSE formatted
    /\ UNCHANGED <<order, bibOrder, log, resetSeen, orderBefore>>
    /\ UNCHANGED otherThanBib

NextBib ==
    \/ \E source_id \in SourceIds, page \in Pages : Cite(source_id, page)
    \/ Bibliography
    \/ CitationOrder
    \/ Reset
    \/ IterFormatted



\* ------------------------------------------- claims on the BibliographyManager

\* the number a label starts with: the digits between "[" and the first "," or "]"
LeadingNumber(label) == PyInt(PyStrip(SplitFirst(SplitFirst(label, "]"), ","), {"["}))

RECURSIVE FirstCited(_)
\* the distinct source_ids of a cite history, in the order of their first citation
FirstCited(l) ==
    IF l = <<>> THEN <<>>
    ELSE LET r == FirstCited(SubSeq(l, 1, Len(l) - 1))
             s == l[Len(l)].source_id
         IN  IF s \in Range(r) THEN r ELSE Append(r, s)

\* C1: the n-th distinct source_id cited since construction or the last reset has
\* reference number n, and the assigned numbers are exactly 1..N for the N distinct
\* cited sources, no number missing and none shared.
C1_FirstCitationOrder ==
    LET first == FirstCited(log)
    IN  /\ DOMAIN order = Range(first)
        /\ \A n \in 1..Len(first) : order[first[n]] = n
        /\ Range(order) = 1..Cardinality(DOMAIN order)
        /\ \A a, b \in DOMAIN order : order[a] = order[b] => a = b
        /\ \A i \in 1..Len(log) :
              (\A j \in 1..(i - 1) : log[j].source_id # log[i].source_id)
              => LeadingNumber(log[i].label) = Len(FirstCited(SubSeq(log, 1, i)))

\* C1 witness: three cites, an earlier source re-cited before a new one is numbered
C1_Witness ==
    /\ Len(log) = 3
    /\ log[1].source_id = log[2].source_id
    /\ log[3].source_id # log[1].source_id
    /\ order[log[3].source_id] = 2

\* C2: all cites of one source_id since the last reset return labels with the same
\* leading number, whatever their page and whatever was called in between.
C2_StableNumber ==
    \A i, j \in 1..Len(log) :
        log[i].source_id = log[j].source_id
        => LeadingNumber(log[i].label) = LeadingNumber(log[j].label)

\* C2 witness: a source is cited, another one after it, then the first again with
\* another page, and a bibliography has been rendered
C2_Witness ==
    /\ Len(log) = 3
    /\ log[1].source_id = log[3].source_id
    /\ log[2].source_id # log[1].source_id
    /\ log[1].page # log[3].page
    /\ DOMAIN formatted # {}

C4_ResetRestarts ==
    /\ ret.op = "reset" =>
          /\ order = <<>>
          /\ bibOrder = <<>>
          /\ formatted = <<>>
          /\ BibliographyEntries(order, bibOrder) = <<>>
          /\ IterFormattedPairs(order, bibOrder, formatted) = <<>>
          /\ \A s \in SourceIds, p \in Pages : LeadingNumber(CiteLabel(order, s, p)) = 1
    /\ resetSeen /\ log = <<>> /\ ret.op = "bibliography" => ret.value = <<>>
    /\ resetSeen /\ log = <<>> /\ ret.op = "citation_order" => ret.value = <<>>
    /\ resetSeen /\ log # <<>> => LeadingNumber(log[1].label) = 1
    /\ \A i \in 1..Len(log) : log[i].before # 0 => LeadingNumber(log[i].label) = 1

\* C4 witness: the first cite after a reset is of a source that had number 2 before it
C4_Witness ==
    /\ resetSeen
    /\ Len(log) = 1
    /\ ret.op = "cite"
    /\ log[1].before = 2

\* the exact text of a label for number n and an optional page
ExpectedLabel(n, page) ==
    IF page = NoPage THEN <<"[">> \o PyStr(n) \o <<"]">>
    ELSE <<"[">> \o PyStr(n) \o <<",", " ", "p", ".", " ">> \o PyStr(page[1]) \o <<"]">>

IsPrefix(p, s) == Len(p) <= Len(s) /\ SubSeq(s, 1, Len(p)) = p

\* C5: cite returns exactly "[N]" without a page and "[N, p. P]" with page P, N
\* the source's number; doc1, doc2 with page 45, doc1 yields "[1]", "[2, p. 45]",
\* "[1]" and a bibliography of two lines, "[1] ..." before "[2] ...".
C5_LabelFormat ==
    /\ \A i \in 1..Len(log) :
          log[i].label = ExpectedLabel(order[log[i].source_id], log[i].page)
    /\ ( /\ Len(log) = 3
         /\ log[1].source_id = "doc1" /\ log[1].page = NoPage
         /\ log[2].source_id = "doc2" /\ log[2].page = <<45>>
         /\ log[3].source_id = "doc1" /\ log[3].page = NoPage )
       => /\ log[1].label = <<"[", "1", "]">>
          /\ log[2].label = <<"[", "2", ",", " ", "p", ".", " ", "4", "5", "]">>
          /\ log[3].label = <<"[", "1", "]">>
          /\ Len(BibliographyEntries(order, bibOrder)) = 2
          /\ IsPrefix(<<"[", "1", "]", " ">>, BibliographyEntries(order, bibOrder)[1])
          /\ IsPrefix(<<"[", "2", "]", " ">>, BibliographyEntries(order, bibOrder)[2])
          /\ ret.op = "bibliography" => ret.value = BibliographyEntries(order, bibOrder)

\* C5 witness: the scenario, followed by bibliography()
C5_Witness ==
    /\ Len(log) = 3
    /\ log[1].source_id = "doc1" /\ log[1].page = NoPage
    /\ log[2].source_id = "doc2" /\ log[2].page = <<45>>
    /\ log[3].source_id = "doc1" /\ log[3].page = NoPage
    /\ ret.op = "bibliography"

\* the source_id of the model that has no metadata record
Unrecorded == "doc3"

CitedSoFar == {log[i].source_id : i \in 1..Len(log)}

\* C23: after any sequence of cite and bibliography calls iter_formatted yields
\* exactly one (reference number, rendered text) pair for every source cited so
\* far, in ascending number order, also for sources cited after the latest
\* bibliography() rendering.
C23_IterFormattedComplete ==
    ret.op = "iter_formatted" /\ ~resetSeen =>
        /\ Len(ret.value) = Cardinality(CitedSoFar)
        /\ \A source_id \in CitedSoFar :
              \E i \in 1..Len(ret.value) :
                  ret.value[i] = <<order[source_id], format_entry(get_reference(source_id))>>
        /\ \A i \in 1..(Len(ret.value) - 1) : ret.value[i][1] < ret.value[i + 1][1]

\* C23, the part that holds: only reset empties the formatted cache
C23_OnlyResetEmptiesCache ==
    [][formatted # <<>> /\ formatted' = <<>> => ret'.op = "reset"]_vars

\* what holds of iter_formatted: its pairs are the sources cited up to the first
\* rendering after which the cache was not empty
C23_IterFormattedFromCache ==
    ret.op = "iter_formatted" =>
        /\ \A i \in 1..Len(ret.value) : ret.value[i][1] \in DOMAIN formatted
        /\ Len(ret.value) = Cardinality(DOMAIN formatted)
        /\ Len(ret.value) <= Cardinality(CitedSoFar)

\* ---------------------------------------------------- IndexBuilder.chunk_text

\* the characters page texts are made of: a text of length n is the first n of them
Alphabet == <<"a", "b", "c", "d", "e", "f">>

PageText(n) == SubSeq(Alphabet, 1, n)

\* the values the settings are drawn from; Settings puts no constraint on them
MinSizes == 0..3

MaxSizes == -1..3

Overlaps == -1..2

\* the i-th page record of a pages file: two documents, page i, a text of length n
PageRecord(i, n) ==
    [doc_id |-> IF i % 2 = 1 THEN "doc1" ELSE "doc2", page |-> i, text |-> PageText(n)]

\* the lists of page records load_records can return
RecordLists ==
    UNION {{[i \in 1..n |-> PageRecord(i, len[i])] : len \in [1..n -> 0..MaxTextLen]} :
              n \in 0..MaxRecords}

\* Python's index normalisation in a slice: a negative index counts from the end
SliceIndex(i, n) == IF i < 0 THEN Max2(i + n, 0) ELSE Min2(i, n)

\* text[a:b]
PySlice(text, a, b) ==
    LET lo == SliceIndex(a, Len(text))
        hi == SliceIndex(b, Len(text))
    IN  IF hi <= lo THEN <<>> ELSE SubSeq(text, lo + 1, hi)

\* the end of the window at start s: chunk_size_max wide, widened to
\* chunk_size_min when the slice is shorter and does not end the text
WindowEnd(text, s) ==
    LET end == Min2(s + chunk_max_size, Len(text))
        candidate == PySlice(text, s, end)
    IN  IF Len(candidate) < chunk_min_size /\ end # Len(text)
        THEN Min2(Len(text), s + chunk_min_size)
        ELSE end

\* a next start that forgets the clip at 0 and steps over one more character
NextStartSkipping(end) == end - chunk_overlap + 1

\* start = max(0, end - overlap)
NextStart(end) == Max2(0, end - chunk_overlap)

InitChunker ==
    /\ chunk_min_size \in MinSizes
    /\ chunk_max_size \in MaxSizes
    /\ chunk_overlap \in Overlaps
    /\ records \in RecordLists
    /\ recIdx = 1
    /\ start = 0
    /\ chunks = <<>>
    /\ chunk_id = 0
    /\ cpc = "loop"
    /\ spans = <<>>

\* a pass of the loop that starts the ids again at 0 with every record
ChunkStepRestartingIds ==
    /\ cpc = "loop"
    /\ recIdx <= Len(records)
    /\ start < Len(records[recIdx].text)
    /\ Len(chunks) < MaxChunks
    /\ LET record == records[recIdx]
           text == record.text
           end == WindowEnd(text, start)
       IN  /\ chunks' = Append(chunks, [doc_id |-> record.doc_id, page |-> record.page,
                                        text |-> PySlice(text, start, end),
                                        chunk_id |-> chunk_id])
           /\ spans' = Append(spans, [rec |-> recIdx, start |-> start, end |-> end])
           /\ IF end = Len(text)
              THEN recIdx' = recIdx + 1 /\ start' = 0 /\ chunk_id' = 0
              ELSE recIdx' = recIdx /\ start' = NextStart(end) /\ chunk_id' = chunk_id + 1
    /\ UNCHANGED <<chunk_min_size, chunk_max_size, chunk_overlap, records, cpc>>
    /\ UNCHANGED otherThanChunker

\* one pass of the while loop: cut a chunk, then break or move the window
ChunkStep ==
    /\ cpc = "loop"
    /\ recIdx <= Len(records)
    /\ start < Len(records[recIdx].text)
    /\ Len(chunks) < MaxChunks
    /\ LET record == records[recIdx]
           text == record.text
           end == WindowEnd(text, start)
       IN  /\ chunks' = Append(chunks, [doc_id |-> record.doc_id, page |-> record.page,
                                        text |-> PySlice(text, start, end),
                                        chunk_id |-> chunk_id])
           /\ spans' = Append(spans, [rec |-> recIdx, start |-> start, end |-> end])
           /\ chunk_id' = chunk_id + 1
           /\ IF end = Len(text)
              THEN recIdx' = recIdx + 1 /\ start' = 0
              ELSE recIdx' = recIdx /\ start' = NextStart(end)
    /\ UNCHANGED <<chunk_min_size, chunk_max_size, chunk_overlap, records, cpc>>
    /\ UNCHANGED otherThanChunker

\* the while condition is false: the for loop takes the next record
NextRecord ==
    /\ cpc = "loop"
    /\ recIdx <= Len(records)
    /\ start >= Len(records[recIdx].text)
    /\ recIdx' = recIdx + 1
    /\ start' = 0
    /\ UNCHANGED <<chunk_min_size, chunk_max_size, chunk_overlap, records, chunks,
                   chunk_id, cpc, spans>>
    /\ UNCHANGED otherThanChunker

\* the for loop is over: chunk_text returns chunks
ChunkReturn ==
    /\ cpc = "loop"
    /\ recIdx > Len(records)
    /\ cpc' = "done"
    /\ UNCHANGED <<chunk_min_size, chunk_max_size, chunk_overlap, records, recIdx,
                   start, chunks, chunk_id, spans>>
    /\ UNCHANGED otherThanChunker

NextChunker == ChunkStep \/ NextRecord \/ ChunkReturn


\* ------------------------------------------------------ claims on chunk_text

\* the positions in chunks of the chunks cut from record r, in output order
ChunksOf(r) == SortedKeys({i \in 1..Len(spans) : spans[i].rec = r})

RECURSIVE Reassemble(_, _)
\* the chunk texts put together again: each chunk after the first drops the
\* characters it repeats, the overlap or all that came before if that is less
Reassemble(texts, overlap) ==
    IF texts = <<>> THEN <<>>
    ELSE LET acc == Reassemble(SubSeq(texts, 1, Len(texts) - 1), overlap)
             t   == texts[Len(texts)]
             dup == IF Len(texts) = 1 THEN 0 ELSE Max2(0, Min2(overlap, Len(acc)))
         IN  acc \o (IF dup >= Len(t) THEN <<>> ELSE SubSeq(t, dup + 1, Len(t)))

\* the chunks of record r cover its text and reassemble to it
CoversRecord(r) ==
    LET ix == ChunksOf(r)
        text == records[r].text
    IN  /\ text = <<>> => ix = <<>>
        /\ text # <<>> =>
              /\ ix # <<>>
              /\ spans[ix[1]].start = 0
              /\ \A k \in 1..(Len(ix) - 1) :
                    /\ spans[ix[k + 1]].start <= spans[ix[k]].end
                    /\ spans[ix[k + 1]].start >= 0
              /\ spans[ix[Len(ix)]].end = Len(text)
              /\ \A k \in 1..Len(ix) :
                    chunks[ix[k]].text = SubSeq(text, spans[ix[k]].start + 1, spans[ix[k]].end)
              /\ Reassemble([k \in 1..Len(ix) |-> chunks[ix[k]].text], chunk_overlap) = text

\* C8 as stated: whenever chunk_text returns, whatever the settings, the chunks of
\* every record cover its text from position 0 to its end without a gap and
\* reassemble to it.
C8_RoundTripAnyOverlap ==
    cpc = "done" => \A r \in 1..Len(records) : CoversRecord(r)

\* C8 amended: the same, for a chunk_overlap that is not negative.
C8_RoundTrip ==
    cpc = "done" /\ chunk_overlap >= 0 => \A r \in 1..Len(records) : CoversRecord(r)

\* C8 witness: chunk_text has returned three overlapping chunks of one record
C8_Witness ==
    /\ cpc = "done"
    /\ chunk_overlap >= 1
    /\ \E r \in 1..Len(records) :
          /\ Len(ChunksOf(r)) = 3
          /\ Len(records[r].text) = MaxTextLen

\* the settings the termination claim is about
SizesPositive == chunk_min_size >= 1 /\ chunk_max_size >= 1 /\ chunk_overlap >= 0

\* C21: chunk_text terminates for every list of records and every chunk_min_size
\* >= 1, chunk_max_size >= 1 and chunk_overlap >= 0, also for an overlap as large
\* as the window or larger.
C21_Terminates == SizesPositive => <>(cpc = "done")

\* C21, the reason it gives: each pass of the loop that does not end the record
\* moves the window start strictly forward
C21_StartMovesForward ==
    [][SizesPositive /\ cpc = "loop" /\ chunks' # chunks /\ recIdx' = recIdx
          => start' > start]_vars

\* what holds instead: the start moves forward when the overlap is smaller than
\* both sizes
C21_ForwardWhenOverlapSmall ==
    [][(/\ SizesPositive
        /\ chunk_overlap < chunk_min_size /\ chunk_overlap < chunk_max_size
        /\ cpc = "loop" /\ chunks' # chunks /\ recIdx' = recIdx)
          => start' > start]_vars

\* and then chunk_text returns, before the list reaches the cap of the model
C21_TerminatesWhenOverlapSmall ==
    (SizesPositive /\ chunk_overlap < chunk_min_size /\ chunk_overlap < chunk_max_size)
        => <>(cpc = "done")

\* C22: the chunk_ids of the chunks of one chunk_text call are 0, 1, ...,
\* len(result)-1 in output order, counted across the records in record order and
\* then position order; a record with empty text gives no chunk and takes no id;
\* every chunk carries the doc_id and page of its record.
C22_RunningChunkIds ==
    /\ \A i \in 1..Len(chunks) :
          /\ chunks[i].chunk_id = i - 1
          /\ chunks[i].doc_id = records[spans[i].rec].doc_id
          /\ chunks[i].page = records[spans[i].rec].page
          /\ records[spans[i].rec].text # <<>>
    /\ \A i \in 1..(Len(chunks) - 1) :
          \/ spans[i].rec < spans[i + 1].rec
          \/ spans[i].rec = spans[i + 1].rec /\ spans[i].start <= spans[i + 1].start
    /\ cpc = "done" => chunk_id = Len(chunks)

\* C22 witness: chunk_text has returned for an empty first record and a second
\* one cut into chunks, which carry the ids from 0 on
C22_Witness ==
    /\ cpc = "done"
    /\ Len(records) = 2 /\ records[1].text = <<>>
    /\ Len(chunks) >= 2
    /\ chunks[1].chunk_id = 0 /\ spans[1].rec = 2

\* ------------------------------------------------ claims on the fallback encoder

\* C10: two encode calls of one backend with the same list of texts return the same
\* vectors, whatever was encoded in between; a call returns one vector per text in
\* input order, the histogram of a text that has bytes and seeded draws for one
\* that has none, the draws of one call starting from the seed.
C10_EncodeDeterministic ==
    /\ encRef.made /\ encLast.made /\ encRef.texts = encLast.texts
       => encRef.vectors = encLast.vectors
    /\ encLast.made =>
          /\ Len(encLast.vectors) = Len(encLast.texts)
          /\ \A i \in 1..Len(encLast.texts) :
                IF encLast.texts[i] # <<>>
                THEN encLast.vectors[i].row = Histogram(encLast.texts[i])
                ELSE LET m == Cardinality({j \in 1..i : encLast.texts[j] = <<>>})
                         all == RngRandom(default_rng(random_seed), dimension * m).values
                     IN  encLast.vectors[i].row =
                             SubSeq(all, dimension * (m - 1) + 1, dimension * m)

\* C10 witness: a list with two empty texts encoded, another list after it, then
\* the first list again
C10_Witness ==
    /\ encRef.made /\ encLast.made
    /\ encRef.texts = encLast.texts
    /\ Len(encLast.texts) = 2
    /\ encLast.texts[1] = <<>> /\ encLast.texts[2] = <<>>
    /\ encLast.vectors[1] # encLast.vectors[2]
    /\ rng # default_rng(random_seed)



\* ---------------------------------------------------------------- QueryEngine

\* the chunk at position i (1-based) of a chunk file; doc1 comes back at position 3
CorpusChunk(i) ==
    LET k == ((i - 1) % 4) + 1
    IN  [doc_id |-> <<"doc1", "doc2", "doc1", "doc3">>[k],
         page |-> i,
         text |-> << <<"a", ".", " ", "b">>, <<" ">>,
                     <<"c", ".", "d", ".", "e", ".", "f">>, <<"g">> >>[k]]

\* the same chunk cut from a document that cites its own sources by number
QuotingChunk(i) ==
    [CorpusChunk(i) EXCEPT !.text = <<"s", " ", "[", "7", "]">> \o @]

\* the rows a stored vector can be, and the vector the backend encodes a query to
EmbRows == {<<1, 0>>, <<0, 1>>}

QueryVector(query) ==
    IF query = <<"q1">> THEN <<1, 0>>
    ELSE IF query = <<"q2">> THEN <<0, 1>>
    ELSE <<1, 1>>

\* the inner product of two vectors
Dot(u, v) == SumSeq([i \in 1..Len(u) |-> u[i] * v[i]])

TieOrders(n) == {f \in [1..n -> 1..n] : \A i, j \in 1..n : f[i] = f[j] => i = j}

\* an optional top_k: NoK for None, <<k>> for the int k
NoK == <<>>

\* k = top_k or self.settings.top_k
EffectiveK(top_k) == IF top_k = NoK \/ top_k = <<0>> THEN settings_top_k ELSE top_k[1]

\* embeddings @ query_vec: the score of every row
Scores(query) == [i \in 1..Len(embeddings) |-> Dot(embeddings[i], QueryVector(query))]

\* np.argsort(scores): the 0-based positions by ascending score; the sort is not
\* stable, rows of equal score come in the order tieRank gives them
Argsort(scores) ==
    LET Before(i, j) == \/ scores[i] < scores[j]
                        \/ scores[i] = scores[j] /\ tieRank[i] < tieRank[j]
    IN  [r \in 1..Len(scores) |->
            (CHOOSE i \in 1..Len(scores) :
                Cardinality({j \in 1..Len(scores) : Before(j, i)}) = r - 1) - 1]

Reversed(s) == [i \in 1..Len(s) |-> s[Len(s) + 1 - i]]

\* np.argsort(scores)[::-1][:k]
BrutePositions(query, k) == PySlice(Reversed(Argsort(Scores(query))), 0, k)

\* index.search(query, k) of the flat inner-product index: the k best positions by
\* descending score, -1 where the index has fewer than k rows
NativePositions(query, k) ==
    LET scores == Scores(query)
        Before(i, j) == \/ scores[i] > scores[j]
                        \/ scores[i] = scores[j] /\ tieRank[i] < tieRank[j]
        best == [r \in 1..Len(scores) |->
                    (CHOOSE i \in 1..Len(scores) :
                        Cardinality({j \in 1..Len(scores) : Before(j, i)}) = r - 1) - 1]
    IN  [r \in 1..k |-> IF r <= Len(best) THEN best[r] ELSE -1]

\* the positions _search walks over, in order
SearchPositions(query, top_k) ==
    IF nativeIndex THEN NativePositions(query, EffectiveK(top_k))
    ELSE BrutePositions(query, EffectiveK(top_k))

RECURSIVE KeptPositions(_)
\* the loop of _search: a position outside self.chunks is skipped
KeptPositions(positions) ==
    IF positions = <<>> THEN <<>>
    ELSE IF Head(positions) < 0 \/ Head(positions) >= Len(qchunks)
         THEN KeptPositions(Tail(positions))
         ELSE <<Head(positions)>> \o KeptPositions(Tail(positions))

\* QueryEngine._search: the RetrievedChunk list
Retrieved(query, top_k) ==
    LET kept == KeptPositions(SearchPositions(query, top_k))
        scores == Scores(query)
    IN  [i \in 1..Len(kept) |->
            [doc_id |-> qchunks[kept[i] + 1].doc_id,
             page |-> qchunks[kept[i] + 1].page,
             text |-> qchunks[kept[i] + 1].text,
             score |-> scores[kept[i] + 1]]]

RECURSIVE PySplit(_, _)
\* s.split(sep) for a one-character sep
PySplit(s, sep) ==
    IF \A i \in 1..Len(s) : s[i] # sep THEN <<s>>
    ELSE LET i == CHOOSE k \in 1..Len(s) : s[k] = sep /\ \A j \in 1..(k - 1) : s[j] # sep
         IN  <<SubSeq(s, 1, i - 1)>> \o PySplit(SubSeq(s, i + 1, Len(s)), sep)

Whitespace == {" ", "\n"}

RECURSIVE StrippedParts(_)
\* [part.strip() for part in parts if part.strip()]
StrippedParts(parts) ==
    IF parts = <<>> THEN <<>>
    ELSE LET p == PyStrip(Head(parts), Whitespace)
         IN  IF p = <<>> THEN StrippedParts(Tail(parts))
             ELSE <<p>> \o StrippedParts(Tail(parts))

Sentences(text) == StrippedParts(PySplit(text, "."))

\* the snippet of _make_sentence: the first sentence, or the first 200 characters
Snippet(text) ==
    IF Sentences(text) # <<>> THEN Sentences(text)[1] ELSE PySlice(text, 0, 200)

\* the body of a chapter paragraph: up to three sentences joined with ". "
ChapterBody(text) == JoinWith(PySlice(Sentences(text), 0, 3), <<".", " ">>)

RECURSIVE RegistryAfterForgetting(_, _, _)
\* a registry that every call starts from empty
RegistryAfterForgetting(reg, results, n) ==
    IF n = 0 THEN [order |-> <<>>, keys |-> <<>>]
    ELSE LET r == RegistryAfterForgetting(reg, results, n - 1)
         IN  [order |-> OrderAfterCite(r.order, results[n].doc_id),
              keys  |-> KeysAfterCite(r.order, r.keys, results[n].doc_id)]

RECURSIVE RegistryAfter(_, _, _)
\* the registry after cite was called for the first n results, one after the other
RegistryAfter(reg, results, n) ==
    IF n = 0 THEN reg
    ELSE LET r == RegistryAfter(reg, results, n - 1)
         IN  [order |-> OrderAfterCite(r.order, results[n].doc_id),
              keys  |-> KeysAfterCite(r.order, r.keys, results[n].doc_id)]

\* the label the i-th cite of a call returns
LabelOf(reg, results, i) ==
    CiteLabel(RegistryAfter(reg, results, i - 1).order, results[i].doc_id, <<results[i].page>>)

\* QueryEngine._make_sentence for the i-th result
MakeSentence(reg, results, i) ==
    Snippet(results[i].text) \o <<".", " ">> \o LabelOf(reg, results, i)

\* QueryEngine._compose_answer
ComposeAnswer(reg, question, results) ==
    IF results = <<>> THEN <<"Es wurden keine passenden Quellen gefunden.">>
    ELSE JoinWith(<< <<"Analyse der Frage: ">> \o question \o <<".">> >>
                  \o [i \in 1..Len(results) |-> MakeSentence(reg, results, i)]
                  \o << <<"Die Bewertung basiert ausschliesslich auf den aufgefuehrten Quellen.">> >>,
                  <<"\n\n">>)

\* the text of chapter(): the heading and the paragraphs of the first n results
ChapterText(reg, title, results, n) ==
    <<"#", " ">> \o title \o <<"\n\n">>
    \o JoinWith([i \in 1..n |-> ChapterBody(results[i].text) \o <<".", " ">>
                                  \o LabelOf(reg, results, i)],
                <<"\n\n">>)

NoQuery == [op |-> "none", args |-> <<>>, text |-> <<>>, bibliography |-> <<>>,
            results |-> <<>>, citation_order |-> <<>>, made |-> FALSE]

NoSearch == [query |-> <<>>, top_k |-> NoK, positions |-> <<>>, results |-> <<>>,
             made |-> FALSE]

\* no engine constructed
IdleEngine ==
    /\ qchunks = <<>>
    /\ embeddings = <<>>
    /\ nativeIndex = FALSE
    /\ tieRank = <<>>
    /\ settings_top_k = 5
    /\ searchRet = NoSearch
    /\ lastCall = NoQuery
    /\ prevCall = NoQuery
    /\ returned = {}
    /\ askedBefore = FALSE

\* QueryEngine.__init__ with load_embeddings: any stored vectors, the chunk file of
\* the same build or one that is a chunk short
InitEngine ==
    /\ \E n \in 0..MaxEmb :
          /\ embeddings \in [1..n -> EmbRows]
          /\ tieRank \in TieOrders(n)
          /\ \E m \in {n, Max2(n - 1, 0)} : qchunks = [i \in 1..m |-> CorpusChunk(i)]
    /\ nativeIndex \in BOOLEAN
    /\ settings_top_k \in {1, 5}
    /\ searchRet = NoSearch
    /\ lastCall = NoQuery
    /\ prevCall = NoQuery
    /\ returned = {}
    /\ askedBefore = FALSE

\* QueryEngine.__init__ over the chunk file of the build that stored the vectors,
\* cut from plain documents or from documents with citations of their own
InitSessionEngine ==
    /\ \E n \in 0..MaxCorpus :
          /\ embeddings \in [1..n -> EmbRows]
          /\ tieRank \in TieOrders(n)
          /\ \E quoting \in BOOLEAN :
                qchunks = [i \in 1..n |-> IF quoting THEN QuotingChunk(i)
                                                      ELSE CorpusChunk(i)]
    /\ nativeIndex \in BOOLEAN
    /\ settings_top_k = 5
    /\ searchRet = NoSearch
    /\ lastCall = NoQuery
    /\ prevCall = NoQuery
    /\ returned = {}
    /\ askedBefore = FALSE

Questions == {<<"q1">>, <<"q2">>}

Titles == {<<"t1">>}

Topics == {<<"x1">>}

\* the query of chapter(): f"{title} - {topic}", with an en dash
ChapterQuery(title, topic) == title \o <<" ", "(ndash)", " ">> \o topic

\* the number of paragraphs of a chapter: range(min(sections, len(results)))
ParagraphCount(sections, results) == Max2(0, Min2(sections, Len(results)))

\* the results a call cited: all of them in ask, those of its paragraphs in chapter
CitedResults(call) ==
    IF call.op = "chapter"
    THEN PySlice(call.results, 0, ParagraphCount(call.args[3], call.results))
    ELSE call.results

\* the sources a call passed to cite
CitedBy(call) == {CitedResults(call)[i].doc_id : i \in 1..Len(CitedResults(call))}

\* what is kept of a call: its arguments, the text it returned, the sources it cited
Returned(call) ==
    [op |-> call.op, args |-> call.args, text |-> call.text, cited |-> CitedBy(call)]

\* the call had been made before with the same arguments
MadeBefore(call) == \E r \in returned : r.op = call.op /\ r.args = call.args

\* _search(query, top_k), called on its own
Search(query, top_k) ==
    /\ searchRet' = [query |-> query, top_k |-> top_k,
                     positions |-> KeptPositions(SearchPositions(query, top_k)),
                     results |-> Retrieved(query, top_k),
                     made |-> TRUE]
    /\ UNCHANGED <<indexVars, lastCall, prevCall, returned, askedBefore>>
    /\ UNCHANGED <<bibVars, otherThanQuery>>

\* ask(question, top_k)
Ask(question, top_k) ==
    /\ searchRet' = [query |-> question, top_k |-> top_k,
                     positions |-> KeptPositions(SearchPositions(question, top_k)),
                     results |-> Retrieved(question, top_k), made |-> TRUE]
    /\ order' = RegistryAfter([order |-> order, keys |-> bibOrder],
                              searchRet'.results, Len(searchRet'.results)).order
    /\ bibOrder' = RegistryAfter([order |-> order, keys |-> bibOrder],
                                 searchRet'.results, Len(searchRet'.results)).keys
    /\ formatted' = FormattedAfter(order', bibOrder', formatted)
    /\ lastCall' = [op |-> "ask", args |-> <<question, top_k>>,
                    text |-> ComposeAnswer([order |-> order, keys |-> bibOrder],
                                           question, searchRet'.results),
                    bibliography |-> BibliographyEntries(order', bibOrder'),
                    results |-> searchRet'.results,
                    citation_order |-> order',
                    made |-> TRUE]
    /\ prevCall' = lastCall
    /\ UNCHANGED <<indexVars, ret, log, resetSeen, orderBefore>>
    /\ UNCHANGED otherThanQuery

\* chapter(title, topic, sections)
Chapter(title, topic, sections) ==
    /\ searchRet' = [query |-> ChapterQuery(title, topic),
                     top_k |-> <<Max2(settings_top_k, sections)>>,
                     positions |-> KeptPositions(SearchPositions(ChapterQuery(title, topic),
                                                     <<Max2(settings_top_k, sections)>>)),
                     results |-> Retrieved(ChapterQuery(title, topic),
                                           <<Max2(settings_top_k, sections)>>),
                     made |-> TRUE]
    /\ order' = RegistryAfter([order |-> order, keys |-> bibOrder], searchRet'.results,
                              ParagraphCount(sections, searchRet'.results)).order
    /\ bibOrder' = RegistryAfter([order |-> order, keys |-> bibOrder], searchRet'.results,
                                 ParagraphCount(sections, searchRet'.results)).keys
    /\ formatted' = FormattedAfter(order', bibOrder', formatted)
    /\ lastCall' = [op |-> "chapter", args |-> <<title, topic, sections>>,
                    text |-> ChapterText([order |-> order, keys |-> bibOrder], title,
                                         searchRet'.results,
                                         ParagraphCount(sections, searchRet'.results)),
                    bibliography |-> BibliographyEntries(order', bibOrder'),
                    results |-> searchRet'.results,
                    citation_order |-> order',
                    made |-> TRUE]
    /\ prevCall' = lastCall
    /\ UNCHANGED <<indexVars, ret, log, resetSeen, orderBefore>>
    /\ UNCHANGED otherThanQuery

TopKs == {NoK, <<0>>, <<1>>, <<2>>}

NextSearch ==
    \E query \in Questions \cup {ChapterQuery(t, x) : t \in Titles, x \in Topics},
       top_k \in TopKs : Search(query, top_k)

NextQuery ==
    \/ \E question \in Questions, top_k \in {NoK, <<1>>} :
          Ask(question, top_k) /\ UNCHANGED <<returned, askedBefore>>
    \/ \E title \in Titles, topic \in Topics, sections \in {1, 3} :
          Chapter(title, topic, sections) /\ UNCHANGED <<returned, askedBefore>>

\* the history of a session takes in the call just made
Recorded ==
    /\ returned' = returned \cup {Returned(lastCall')}
    /\ askedBefore' = MadeBefore(lastCall')

\* the calls of a session, each one recorded
NextSession ==
    \/ \E question \in Questions : Ask(question, NoK) /\ Recorded
    \/ \E title \in Titles, topic \in Topics : Chapter(title, topic, 1) /\ Recorded

\* ----------------------------------------------------- claims on the QueryEngine

\* C7: two calls in succession of ask with the same question and top_k, or of
\* chapter with the same title, topic and sections, on one engine return the same
\* text and the same bibliography.
C7_RepeatedCallIdentical ==
    /\ prevCall.made /\ lastCall.made
    /\ prevCall.op = lastCall.op
    /\ prevCall.args = lastCall.args
    => /\ prevCall.text = lastCall.text
       /\ prevCall.bibliography = lastCall.bibliography

\* C7 witness: the same question asked twice, two sources retrieved and cited
C7_Witness ==
    /\ prevCall.made /\ lastCall.made
    /\ lastCall.op = "ask" /\ prevCall.op = "ask"
    /\ prevCall.args = lastCall.args
    /\ Len(lastCall.results) >= 2
    /\ Len(lastCall.bibliography) >= 2

\* the results of the latest _search are in the order the claim gives: descending
\* score, and ascending position among equal scores
TiesAscending ==
    \A i, j \in 1..Len(searchRet.results) :
        i < j =>
            /\ searchRet.results[i].score >= searchRet.results[j].score
            /\ searchRet.results[i].score = searchRet.results[j].score
               => searchRet.positions[i] < searchRet.positions[j]

\* C9, on the stored-array path: _search returns at most k results by descending
\* score, chunks of equal score in ascending order of their position.
C9_BruteForceTiesAscending ==
    searchRet.made /\ ~nativeIndex =>
        /\ Len(searchRet.results) <= EffectiveK(searchRet.top_k)
        /\ TiesAscending

\* C9, the part that holds on both paths: at most k results, k being top_k or the
\* configured top_k, by descending score.
C9_DescendingAtMostK ==
    searchRet.made =>
        /\ Len(searchRet.results) <= EffectiveK(searchRet.top_k)
        /\ \A i, j \in 1..Len(searchRet.results) :
              i < j => searchRet.results[i].score >= searchRet.results[j].score

\* ------------------------------------------------------------ CITATION_PATTERN

IsDigit(c) == c \in Range(DigitChars)

\* s[a..b] is one or more digits
AllDigits(s, a, b) == a <= b /\ b <= Len(s) /\ \A i \in a..b : IsDigit(s[i])

\* the literal text lit stands in s at position i
LiteralAt(s, i, lit) ==
    /\ i + Len(lit) - 1 <= Len(s)
    /\ \A k \in 1..Len(lit) : s[i + k - 1] = lit[k]

\* the literal between the number and the page of a label: ", p. "
PageInfix == <<",", " ", "p", ".", " ">>

\* ", pp. ", which the pattern does not take
PageInfixPlural == <<",", " ", "p", "p", ".", " ">>

\* a pattern that took ", pp. " as well
PageInfixesLoose == {PageInfix, PageInfixPlural}

\* the page infixes of (?:, p\. (\d+))?
PageInfixes == {PageInfix}

NoMatch == [found |-> FALSE]

\* every way \[(\d+)(?:, p\. (\d+))?\] matches s from position i: a is the last
\* digit of group 1, paged says whether the optional group took part, b is the
\* last digit of group 2
MatchesAt(s, i) ==
    IF i > Len(s) \/ s[i] # "[" THEN {}
    ELSE
      {[found |-> TRUE, start |-> i, end |-> a + 1, paged |-> FALSE,
        group1 |-> SubSeq(s, i + 1, a), group2 |-> <<>>] :
          a \in {a \in (i + 1)..Len(s) :
                    AllDigits(s, i + 1, a) /\ LiteralAt(s, a + 1, <<"]">>)}}
      \cup
      UNION {
        {[found |-> TRUE, start |-> i, end |-> ab[2] + 1, paged |-> TRUE,
          group1 |-> SubSeq(s, i + 1, ab[1]),
          group2 |-> SubSeq(s, ab[1] + Len(infix) + 1, ab[2])] :
            ab \in {ab \in {a \in (i + 1)..Len(s) : AllDigits(s, i + 1, a)
                                                        /\ LiteralAt(s, a + 1, infix)}
                            \X {b \in (i + 1)..Len(s) : LiteralAt(s, b + 1, <<"]">>)} :
                      AllDigits(s, ab[1] + Len(infix) + 1, ab[2])}} :
        infix \in PageInfixes}

\* the match the backtracking engine reports at position i: the greedy \d+ first
\* (the longest group 1), the optional group taken before it is skipped, its \d+
\* greedy too
MatchAt(s, i) ==
    LET all == MatchesAt(s, i)
        Prior(m, n) == \/ Len(m.group1) > Len(n.group1)
                       \/ Len(m.group1) = Len(n.group1) /\ m.paged /\ ~n.paged
                       \/ /\ Len(m.group1) = Len(n.group1) /\ m.paged = n.paged
                          /\ Len(m.group2) >= Len(n.group2)
    IN  IF all = {} THEN NoMatch
        ELSE CHOOSE m \in all : \A n \in all : Prior(m, n)

\* CITATION_PATTERN.fullmatch(s): some way of matching from the start takes all of s
FullMatch(s) == \E m \in MatchesAt(s, 1) : m.end = Len(s)

RECURSIVE FindIter(_, _)
\* CITATION_PATTERN.finditer(s) from position pos on: the matches, left to right,
\* not overlapping
FindIter(s, pos) ==
    LET hits == {i \in pos..Len(s) : MatchAt(s, i).found}
    IN  IF hits = {} THEN <<>>
        ELSE LET i == CHOOSE i \in hits : \A j \in hits : i <= j
                 m == MatchAt(s, i)
             IN  <<m>> \o FindIter(s, m.end + 1)

\* CITATION_PATTERN.search(s) finds a match
PatternSearch(s) == \E i \in 1..Len(s) : MatchAt(s, i).found

\* s.endswith(suffix)
EndsWith(s, suffix) ==
    Len(suffix) <= Len(s) /\ SubSeq(s, Len(s) - Len(suffix) + 1, Len(s)) = suffix

\* ------------------------------------------------------------------- Reviewer

\* the characters re.split looks behind for: [.!?]
SentenceEnds == {".", "!", "?"}

\* the end of the run of whitespace that starts at position i
WhitespaceRunEnd(s, i) ==
    CHOOSE j \in i..Len(s) :
        /\ \A k \in i..j : s[k] \in Whitespace
        /\ j = Len(s) \/ s[j + 1] \notin Whitespace

RECURSIVE ReSplit(_)
\* re.split(r"(?<=[.!?])\s+", s)
ReSplit(s) ==
    LET cuts == {i \in 2..Len(s) : s[i] \in Whitespace /\ s[i - 1] \in SentenceEnds}
    IN  IF cuts = {} THEN <<s>>
        ELSE LET i == CHOOSE i \in cuts : \A j \in cuts : i <= j
             IN  <<SubSeq(s, 1, i - 1)>>
                 \o ReSplit(SubSeq(s, WhitespaceRunEnd(s, i) + 1, Len(s)))

\* the sentences of _check_citation_presence: the pieces stripped, empty ones left out
ReviewSentences(s) == StrippedParts(ReSplit(s))

\* str.lower() of one character
Lower(c) == IF c = "A" THEN "a" ELSE IF c = "B" THEN "b" ELSE c

CaptionMarker == <<"a", "b", "b", ".">>

\* a check that takes no sentence for a caption
IsCaptionNever(sentence) == FALSE

\* sentence.lower().startswith("abb.")
IsCaption(sentence) ==
    /\ Len(sentence) >= Len(CaptionMarker)
    /\ \A k \in 1..Len(CaptionMarker) : Lower(sentence[k]) = CaptionMarker[k]

ReviewWarning(code, context) == [code |-> code, context |-> context]

RECURSIVE MissingCitations(_)
\* Reviewer._check_citation_presence over the list of sentences
MissingCitations(sentences) ==
    IF sentences = <<>> THEN <<>>
    ELSE (IF IsCaption(Head(sentences)) \/ PatternSearch(Head(sentences)) THEN <<>>
          ELSE <<ReviewWarning("missing-citation", Head(sentences))>>)
         \o MissingCitations(Tail(sentences))

\* numbers = [int(match.group(1)) for match in CITATION_PATTERN.finditer(self.text)]
CitationNumbers(s) ==
    LET ms == FindIter(s, 1) IN [i \in 1..Len(ms) |-> PyInt(ms[i].group1)]

\* str(numbers) of a list of ints
PyListStr(numbers) ==
    <<"[">> \o JoinWith([i \in 1..Len(numbers) |-> PyStr(numbers[i])], <<",", " ">>)
    \o <<"]">>

\* list(range(1, n + 1)) with n the number a sequence check starts from
RangeList(n) == [i \in 1..n |-> i]

\* the first number, were the range to end there
ExpectedEndFirst(numbers) == numbers[1]

\* the number the expected range ends at: numbers[-1]
ExpectedEnd(numbers) == numbers[Len(numbers)]

\* a check that sees no repeat
HasRepeatNever(numbers) == FALSE

\* len(set(numbers)) != len(numbers)
HasRepeat(numbers) == Cardinality(Range(numbers)) # Len(numbers)

\* Reviewer._check_sequence
SequenceWarnings(s) ==
    LET numbers == CitationNumbers(s)
    IN  IF numbers = <<>> THEN <<>>
        ELSE (IF numbers # RangeList(ExpectedEnd(numbers))
              THEN <<ReviewWarning("sequence-error", PyListStr(numbers))>> ELSE <<>>)
             \o (IF HasRepeat(numbers)
                 THEN <<ReviewWarning("duplicate-reference", PyListStr(numbers))>>
                 ELSE <<>>)

RECURSIVE FormatWarningsOf(_, _)
\* Reviewer._check_format over the matches of finditer
FormatWarningsOf(s, ms) ==
    IF ms = <<>> THEN <<>>
    ELSE LET m == Head(ms)
             whole == SubSeq(s, m.start, m.end)
         IN  (IF m.group2 # <<>> /\ ~EndsWith(whole, m.group2 \o <<"]">>)
              THEN <<ReviewWarning("format-error", whole)>> ELSE <<>>)
             \o FormatWarningsOf(s, Tail(ms))

\* what one review() call appends to self.warnings
ReviewWarnings(s) ==
    MissingCitations(ReviewSentences(s)) \o SequenceWarnings(s)
    \o FormatWarningsOf(s, FindIter(s, 1))

\* the texts reviewed: the pieces they are put together from
Fragments ==
    { <<"KI wirkt transformativ">>, <<".">>, <<" ">>,
      <<"[", "1", "]">>, <<"[", "2", "]">>,
      <<"[", "1", ",", " ", "p", ".", " ", "4", "]">>,
      <<"[", "1", ",", " ", "p", "p", ".", " ", "4", "]">>,
      <<"A", "b", "b", ".">>, <<"[">>, <<"1">>, <<"]">> }

\* "KI wirkt transformativ. [1]\n"
TextCited == <<"KI wirkt transformativ", ".", " ", "[", "1", "]", "\n">>

\* a text that cites [1], then [3]
TextGap == <<"[", "1", "]", " ", "[", "3", "]">>

\* a caption, a cited sentence and an uncited one
TextMixed ==
    <<"A", "b", "b", ".", " ", "KI wirkt transformativ", " ", "[", "1", "]", ".", " ",
      "KI wirkt transformativ", ".">>

\* the strings the pattern is tried on in test_ieee_format.py
PatternSamples ==
    { <<"[", "1", "2", ",", " ", "p", ".", " ", "4", "5", "]">>,
      <<"[", "3", ",", " ", "p", ".", " ", "7", "]">>,
      <<"(", "1", ")">>,
      <<"[", "1", ",", " ", "p", "p", ".", " ", "4", "5", "]">>,
      <<"[", "1", ",", " ", "Seite", " ", "4", "5", "]">> }

RECURSIVE FragmentTexts(_)
\* every text of up to n fragments
FragmentTexts(n) ==
    IF n = 0 THEN {<<>>}
    ELSE LET shorter == FragmentTexts(n - 1)
         IN  shorter \cup {t \o f : t \in shorter, f \in Fragments}

Texts == FragmentTexts(MaxFrags) \cup {TextCited, TextGap, TextMixed} \cup PatternSamples

NoFullMatch == <<>>

IdleReviewer ==
    /\ revText = <<>>
    /\ warnings = <<>>
    /\ emitted = <<>>
    /\ reviews = 0
    /\ matched = NoFullMatch

\* Reviewer(text)
InitReviewer ==
    /\ revText \in Texts
    /\ warnings = <<>>
    /\ emitted = <<>>
    /\ reviews = 0
    /\ matched = NoFullMatch

\* Reviewer.review: the three checks in turn, each appending to self.warnings
Review ==
    /\ reviews < MaxReviews
    /\ emitted' = ReviewWarnings(revText)
    /\ warnings' = warnings \o emitted'
    /\ reviews' = reviews + 1
    /\ UNCHANGED <<revText, matched>>
    /\ UNCHANGED otherThanReviewer

\* CITATION_PATTERN.fullmatch(text)
FullMatchCall ==
    /\ matched = NoFullMatch
    /\ matched' = <<FullMatch(revText)>>
    /\ UNCHANGED <<revText, warnings, emitted, reviews>>
    /\ UNCHANGED otherThanReviewer

NextReviewer == Review

NextPattern == FullMatchCall

\* -------------------------------------------------- IndexBuilder.build, load_embeddings

\* a file that does not exist; a file that does is <<content>>
NoFile == <<>>

PagesMissingMessage ==
    "Es wurden keine eingelesenen Seiten gefunden. Bitte zuerst 'ba-agent ingest' ausfuehren."

IndexMissingMessage ==
    "Es wurde noch kein Index erstellt. Bitte 'ba-agent index' ausfuehren."

\* the message of the FileNotFoundError that np.load raises itself
OsMissingMessage == "[Errno 2] No such file or directory"

FileNotFoundError(msg) == <<[kind |-> "FileNotFoundError", message |-> msg]>>

NotRaised == <<>>

\* a load_records that takes a missing pages file for an empty one
load_recordsLenient ==
    IF pages_file = NoFile THEN [raised |-> NotRaised, value |-> <<>>]
    ELSE [raised |-> NotRaised, value |-> pages_file[1]]

\* IndexBuilder.load_records: the records, or the error it raises
load_records ==
    IF pages_file = NoFile
    THEN [raised |-> FileNotFoundError(PagesMissingMessage), value |-> <<>>]
    ELSE [raised |-> NotRaised, value |-> pages_file[1]]

RECURSIVE WindowsFrom(_, _)
\* the while loop of chunk_text over one record, from the window start s on
WindowsFrom(record, s) ==
    IF s >= Len(record.text) THEN <<>>
    ELSE LET end == WindowEnd(record.text, s)
         IN  <<[doc_id |-> record.doc_id, page |-> record.page,
                text |-> PySlice(record.text, s, end)]>>
             \o (IF end = Len(record.text) THEN <<>>
                 ELSE WindowsFrom(record, NextStart(end)))

RECURSIVE WindowsOfAll(_)
WindowsOfAll(recs) ==
    IF recs = <<>> THEN <<>>
    ELSE WindowsFrom(Head(recs), 0) \o WindowsOfAll(Tail(recs))

\* IndexBuilder.chunk_text as a function, for settings under which it returns
chunk_text(recs) ==
    LET ws == WindowsOfAll(recs)
    IN  [i \in 1..Len(ws) |->
            [doc_id |-> ws[i].doc_id, page |-> ws[i].page, text |-> ws[i].text,
             chunk_id |-> i - 1]]

\* text.encode("utf-8") of a chunk text over Alphabet
Utf8(text) ==
    [i \in 1..Len(text) |-> 96 + (CHOOSE k \in 1..Len(Alphabet) : Alphabet[k] = text[i])]

\* what build() can overwrite: the chunk file and the two vector files
Outputs == <<chunk_file, index_file, embedding_file>>

NoFileCall == [op |-> "none", raised |-> NotRaised, value |-> <<>>, before |-> <<>>]

IdleFiles ==
    /\ pages_file = NoFile
    /\ chunk_file = NoFile
    /\ index_file = NoFile
    /\ embedding_file = NoFile
    /\ faiss = FALSE
    /\ fileCall = NoFileCall

\* the chunk list of an earlier build
OldChunks == chunk_text(<<PageRecord(1, 1)>>)

\* the vectors of an earlier build
OldVectors == <<[i \in 1..dimension |-> IF i = 1 THEN 1 ELSE 0]>>

\* the files as a call can find them: each there or not, the index files of an
\* earlier build, faiss importable or not
InitFiles ==
    /\ pages_file \in {NoFile} \cup {<<recs>> : recs \in RecordLists}
    /\ chunk_file \in {NoFile, <<OldChunks>>}
    /\ index_file \in {NoFile, <<OldVectors>>}
    /\ embedding_file \in {NoFile, <<OldVectors>>}
    /\ faiss \in BOOLEAN
    /\ fileCall = NoFileCall

\* IndexBuilder.build
Build ==
    LET loaded == load_records
        built  == chunk_text(loaded.value)
        vecs   == encode_fallback([i \in 1..Len(built) |-> Utf8(built[i].text)])
    IN  IF loaded.raised # NotRaised
        THEN /\ fileCall' = [op |-> "build", raised |-> loaded.raised, value |-> <<>>,
                          before |-> Outputs]
             /\ UNCHANGED <<pages_file, chunk_file, index_file, embedding_file, faiss>>
             /\ UNCHANGED otherThanFiles
        ELSE /\ index_file' = IF faiss THEN <<vecs>> ELSE index_file
             /\ embedding_file' = IF faiss THEN embedding_file ELSE <<vecs>>
             /\ chunk_file' = <<built>>
             /\ fileCall' = [op |-> "build", raised |-> NotRaised, value |-> built,
                          before |-> Outputs]
             /\ UNCHANGED <<pages_file, faiss>>
             /\ UNCHANGED otherThanFiles

\* load_embeddings(settings)
LoadEmbeddings ==
    /\ fileCall' =
          IF chunk_file = NoFile
          THEN [op |-> "load_embeddings",
                raised |-> FileNotFoundError(IndexMissingMessage), value |-> <<>>,
                before |-> Outputs]
          ELSE IF faiss /\ index_file # NoFile
          THEN [op |-> "load_embeddings", raised |-> NotRaised,
                value |-> <<index_file[1], chunk_file[1]>>, before |-> Outputs]
          ELSE IF embedding_file = NoFile
          THEN [op |-> "load_embeddings",
                raised |-> FileNotFoundError(OsMissingMessage), value |-> <<>>,
                before |-> Outputs]
          ELSE [op |-> "load_embeddings", raised |-> NotRaised,
                value |-> <<embedding_file[1], chunk_file[1]>>, before |-> Outputs]
    /\ UNCHANGED <<pages_file, chunk_file, index_file, embedding_file, faiss>>
    /\ UNCHANGED otherThanFiles

NextFiles == Build \/ LoadEmbeddings

\* ------------------------------------------------------------------- Exporter

\* s.rstrip()
PyRStrip(s) ==
    LET keep == {i \in 1..Len(s) : s[i] \notin Whitespace}
    IN  IF keep = {} THEN <<>>
        ELSE SubSeq(s, 1, CHOOSE i \in keep : \A j \in keep : i >= j)

LiteratureHeading == "## Literaturverzeichnis"

\* "\n".join(["## Literaturverzeichnis", ""] + list(bib_entries))
BibliographyBlock(bib_entries) ==
    JoinWith(<< <<LiteratureHeading>>, <<>> >> \o bib_entries, <<"\n">>)

\* the entries append_bibliography works with: the citations handed in, or the
\* manager's bibliography when there are none
EntriesUsed(citations) ==
    IF citations # <<>> THEN citations ELSE BibliographyEntries(order, bibOrder)

\* Exporter.append_bibliography
append_bibliography(markdown, citations) ==
    IF EntriesUsed(citations) = <<>> THEN markdown
    ELSE PyRStrip(markdown) \o <<"\n", "\n">>
         \o BibliographyBlock(EntriesUsed(citations)) \o <<"\n">>

\* the markdown documents that are exported
Documents ==
    { <<"KI wirkt transformativ", ".", " ", "[", "1", "]", "\n">>,
      <<"Text", ".", " ", "[", "1", "]", " ", "Mehr", ".", " ", "[", "2", "]">>,
      <<"Text", ".", "\n">>,
      <<>> }

\* the citation lists append_bibliography is called with
CitationLists ==
    { <<>>, << <<"[", "1", "]", " ", "Quelle">> >> }

NoExport == [op |-> "none", markdown |-> <<>>, citations |-> <<>>, out |-> <<>>,
             entries |-> <<>>]

IdleExporter == exportCall = NoExport

\* Exporter(settings): a BibliographyManager of its own, nothing cited
InitExporter == InitBib /\ exportCall = NoExport

\* Exporter.append_bibliography(markdown, citations)
AppendBibliography(markdown, citations) ==
    /\ exportCall' = [op |-> "append_bibliography", markdown |-> markdown,
                      citations |-> citations,
                      out |-> append_bibliography(markdown, citations),
                      entries |-> EntriesUsed(citations)]
    /\ formatted' = IF citations = <<>> THEN FormattedAfter(order, bibOrder, formatted)
                    ELSE formatted
    /\ UNCHANGED <<order, bibOrder, ret, log, resetSeen, orderBefore>>
    /\ UNCHANGED otherThanExporter

\* Exporter.convert(markdown_path, output_path): out is the text of the temporary
\* file pandoc is run on
Convert(markdown) ==
    /\ exportCall' = [op |-> "convert", markdown |-> markdown,
                      citations |-> BibliographyEntries(order, bibOrder),
                      out |-> append_bibliography(markdown,
                                                  BibliographyEntries(order, bibOrder)),
                      entries |-> BibliographyEntries(order, bibOrder)]
    /\ formatted' = FormattedAfter(order, bibOrder, formatted)
    /\ UNCHANGED <<order, bibOrder, ret, log, resetSeen, orderBefore>>
    /\ UNCHANGED otherThanExporter

\* the calls on an Exporter and on its public bibliography attribute
NextExporter ==
    \/ \E markdown \in Documents, citations \in CitationLists :
          AppendBibliography(markdown, citations)
    \/ \E markdown \in Documents : Convert(markdown)
    \/ \E source_id \in SourceIds : Cite(source_id, NoPage)

\* ------------------------------------------------------ claims on the Reviewer

\* the warnings of one code among those the latest review() call emitted
EmittedWith(code) == SelectSeq(emitted, LAMBDA w : w.code = code)

\* s is "[" digits "]"
IsPlainLabel(s) ==
    /\ Len(s) >= 3
    /\ s[1] = "[" /\ s[Len(s)] = "]"
    /\ \A i \in 2..(Len(s) - 1) : IsDigit(s[i])

\* s is "[" digits ", p. " digits "]"
IsPagedLabel(s) ==
    \E k \in 2..Len(s) :
        /\ Len(s) >= k + 7
        /\ s[1] = "[" /\ s[Len(s)] = "]"
        /\ \A i \in 2..k : IsDigit(s[i])
        /\ SubSeq(s, k + 1, k + 5) = <<",", " ", "p", ".", " ">>
        /\ \A i \in (k + 6)..(Len(s) - 1) : IsDigit(s[i])

IsLabelText(s) == IsPlainLabel(s) \/ IsPagedLabel(s)

\* the places of text s where a label stands, as <<first, last>>
LabelSpans(s) ==
    {sp \in {a \in 1..Len(s) : s[a] = "["} \X {b \in 1..Len(s) : s[b] = "]"} :
        sp[1] <= sp[2] /\ IsLabelText(SubSeq(s, sp[1], sp[2]))}

\* the number of the label that stands at sp
LabelNumber(s, sp) ==
    LET k == CHOOSE k \in (sp[1] + 1)..sp[2] :
                 /\ \A i \in (sp[1] + 1)..k : IsDigit(s[i])
                 /\ ~IsDigit(s[k + 1])
    IN  PyInt(SubSeq(s, sp[1] + 1, k))

\* the citation numbers of text s in document order
NumbersInOrder(s) ==
    LET labels == LabelSpans(s)
    IN  [r \in 1..Cardinality(labels) |->
            LabelNumber(s, CHOOSE sp \in labels :
                               Cardinality({o \in labels : o[1] < sp[1]}) = r - 1)]

MaxOf(numbers) == CHOOSE m \in Range(numbers) : \A n \in Range(numbers) : n <= m

\* C11: reviewing "KI wirkt transformativ. [1]\n" yields no missing-citation and
\* no sequence-error warning.
C11_CitedTextNoWarning ==
    reviews > 0 /\ revText = TextCited =>
        /\ EmittedWith("missing-citation") = <<>>
        /\ EmittedWith("sequence-error") = <<>>

\* C12: review emits exactly one sequence-error warning, its context the printed
\* list of the citation numbers in document order, if and only if that list is
\* not empty and is not 1, 2, ..., max(list); for [1] then [3] the context is
\* "[1, 3]".
C12_SequenceError ==
    reviews > 0 =>
        LET numbers == NumbersInOrder(revText)
            found   == EmittedWith("sequence-error")
        IN  /\ IF numbers # <<>> /\ numbers # RangeList(MaxOf(numbers))
               THEN Len(found) = 1 /\ found[1].context = PyListStr(numbers)
               ELSE found = <<>>
            /\ revText = TextGap =>
                  /\ Len(found) = 1
                  /\ found[1].context = <<"[", "1", ",", " ", "3", "]">>

\* C12 witness: the text citing [1] then [3] was reviewed and one sequence-error
\* came out
C12_Witness ==
    /\ reviews > 0 /\ revText = TextGap
    /\ Len(EmittedWith("sequence-error")) = 1

\* position k of s lies in a run of whitespace that follows '.', '!' or '?'
InSeparator(s, k) ==
    /\ s[k] \in Whitespace
    /\ \E i \in 2..k : /\ s[i - 1] \in {".", "!", "?"}
                       /\ \A j \in i..k : s[j] \in Whitespace

\* the sentences of s as <<first, last>>: the longest stretches free of separators
SentenceSpans(s) ==
    LET sep    == {k \in 1..Len(s) : InSeparator(s, k)}
        firsts == {a \in (1..Len(s)) \ sep : a = 1 \/ (a - 1) \in sep}
        lasts  == {b \in (1..Len(s)) \ sep : b = Len(s) \/ (b + 1) \in sep}
    IN  {sp \in firsts \X lasts :
            sp[1] <= sp[2] /\ \A k \in sp[1]..sp[2] : k \notin sep}

SentenceAt(s, sp) == PyStrip(SubSeq(s, sp[1], sp[2]), Whitespace)

StartsWithCaptionMarker(t) ==
    /\ Len(t) >= 4
    /\ <<Lower(t[1]), Lower(t[2]), Lower(t[3]), t[4]>> = <<"a", "b", "b", ".">>

ContainsLabel(t) ==
    \E a, b \in 1..Len(t) :
        a <= b /\ t[a] = "[" /\ t[b] = "]" /\ IsLabelText(SubSeq(t, a, b))

\* the sentences a missing-citation warning is due for
UncitedSpans(s) ==
    {sp \in SentenceSpans(s) :
        /\ SentenceAt(s, sp) # <<>>
        /\ ~StartsWithCaptionMarker(SentenceAt(s, sp))
        /\ ~ContainsLabel(SentenceAt(s, sp))}

\* C13: review emits one missing-citation warning, with the sentence as context,
\* for every sentence that does not start with the figure-caption marker and
\* contains no label, and none for any other sentence.
C13_MissingCitation ==
    reviews > 0 =>
        LET due   == UncitedSpans(revText)
            found == EmittedWith("missing-citation")
        IN  /\ Len(found) = Cardinality(due)
            /\ \A r \in 1..Len(found) :
                  found[r].context =
                      SentenceAt(revText, CHOOSE sp \in due :
                                     Cardinality({o \in due : o[1] < sp[1]}) = r - 1)

\* C13 witness: a reviewed text with a caption, a cited sentence and an uncited
\* one, and the one warning for the uncited sentence
C13_Witness ==
    /\ reviews > 0 /\ revText = TextMixed
    /\ Cardinality(SentenceSpans(revText)) = 3
    /\ Len(EmittedWith("missing-citation")) = 1
    /\ EmittedWith("missing-citation")[1].context = <<"KI wirkt transformativ", ".">>

\* s[i..j] is a citation with a page component that is not written "[N, p. P]"
MalformedPageCitation(s, i, j) ==
    /\ i < j /\ s[i] = "[" /\ s[j] = "]"
    /\ \A k \in (i + 1)..(j - 1) : s[k] \notin {"[", "]"}
    /\ \E k \in (i + 1)..(j - 1) : AllDigits(s, i + 1, k) /\ s[k + 1] = ","
    /\ ~IsLabelText(SubSeq(s, i, j))

\* C14: review emits a format-error warning, with the offending literal text as
\* context, for every citation whose page component is not written "[N, p. P]".
C14_MalformedPageFlagged ==
    reviews > 0 =>
        \A i, j \in 1..Len(revText) :
            MalformedPageCitation(revText, i, j) =>
                \E r \in 1..Len(emitted) :
                    /\ emitted[r].code = "format-error"
                    /\ emitted[r].context = SubSeq(revText, i, j)

\* what holds instead: no review emits a format-error warning
C14_NoFormatErrorEver == EmittedWith("format-error") = <<>>

\* C15: review emits exactly one duplicate-reference warning if a citation number
\* occurs more than once in the list of the numbers of the text, and none if all
\* are distinct.
C15_DuplicateReference ==
    reviews > 0 =>
        LET numbers == NumbersInOrder(revText)
            found   == EmittedWith("duplicate-reference")
        IN  IF \E i, j \in 1..Len(numbers) : i < j /\ numbers[i] = numbers[j]
            THEN Len(found) = 1
            ELSE found = <<>>

\* C15 witness: a reviewed text that cites [1] twice and nothing else, with its
\* one duplicate-reference warning
C15_Witness ==
    /\ reviews > 0
    /\ NumbersInOrder(revText) = <<1, 1>>
    /\ Len(EmittedWith("duplicate-reference")) = 1

\* C18: a string matches CITATION_PATTERN in full if and only if it is
\* "[" digits "]" or "[" digits ", p. " digits "]"; "[1]", "[12, p. 45]" and
\* "[3, p. 7]" match, "(1)", "[1, pp. 45]" and "[1, Seite 45]" do not.
C18_FullMatchIffLabel ==
    matched # NoFullMatch =>
        /\ matched[1] <=> IsLabelText(revText)
        /\ revText \in { <<"[", "1", "]">>,
                         <<"[", "1", "2", ",", " ", "p", ".", " ", "4", "5", "]">>,
                         <<"[", "3", ",", " ", "p", ".", " ", "7", "]">> } => matched[1]
        /\ revText \in { <<"(", "1", ")">>,
                         <<"[", "1", ",", " ", "p", "p", ".", " ", "4", "5", "]">>,
                         <<"[", "1", ",", " ", "Seite", " ", "4", "5", "]">> } => ~matched[1]

\* C18 witness: "[12, p. 45]" was tried and matched in full
C18_Witness ==
    /\ matched = <<TRUE>>
    /\ revText = <<"[", "1", "2", ",", " ", "p", ".", " ", "4", "5", "]">>

\* ------------------------------------------- claims on ask without results

NoSourcesMessage == <<"Es wurden keine passenden Quellen gefunden.">>

\* C16: whenever an ask call retrieves no chunks, at any point in the life of the
\* engine and for any top_k, it returns the fixed "no sources found" message as
\* answer and an empty bibliography.
C16_NoChunksEmptyBibliography ==
    lastCall.made /\ lastCall.op = "ask" /\ lastCall.results = <<>> =>
        /\ lastCall.text = NoSourcesMessage
        /\ lastCall.bibliography = <<>>

\* what holds of such a call: the fixed message, and the bibliography of
\* everything the engine has cited so far
C16_NoChunksMessageAndRegistry ==
    lastCall.made /\ lastCall.op = "ask" /\ lastCall.results = <<>> =>
        /\ lastCall.text = NoSourcesMessage
        /\ lastCall.bibliography = BibliographyEntries(order, bibOrder)

\* --------------------------------------------- claims on build and load_embeddings

\* C17: an operation whose required artifact is missing fails with a NotFound
\* error carrying a user-facing message and produces no partial output: build()
\* without a pages file raises before writing the chunk file or the vector file,
\* leaving both as they were, and load_embeddings without a chunk file raises
\* without returning an index.
C17_MissingArtifactRaises ==
    /\ fileCall.op = "build" /\ pages_file = NoFile =>
          /\ fileCall.raised =
                <<[kind |-> "FileNotFoundError",
                   message |-> "Es wurden keine eingelesenen Seiten gefunden. Bitte zuerst 'ba-agent ingest' ausfuehren."]>>
          /\ fileCall.value = <<>>
          /\ <<chunk_file, index_file, embedding_file>> = fileCall.before
    /\ fileCall.op = "load_embeddings" /\ chunk_file = NoFile =>
          /\ fileCall.raised =
                <<[kind |-> "FileNotFoundError",
                   message |-> "Es wurde noch kein Index erstellt. Bitte 'ba-agent index' ausfuehren."]>>
          /\ fileCall.value = <<>>
    /\ fileCall.raised # <<>> =>
          /\ fileCall.raised[1].kind = "FileNotFoundError"
          /\ fileCall.value = <<>>
          /\ <<chunk_file, index_file, embedding_file>> = fileCall.before

\* C17 witness: build() found no pages file, raised, and the chunk file and the
\* vector file of an earlier build are still there
C17_Witness ==
    /\ fileCall.op = "build" /\ pages_file = NoFile
    /\ fileCall.raised # <<>>
    /\ chunk_file # NoFile /\ embedding_file # NoFile /\ ~faiss

\* ------------------------------------------------ claims on the author part

\* a name as the claim gives it: the literal, else "<given> <family>"
NameAsClaimed(author) ==
    LET literal == DictGet(author, "literal")
        given   == DictGet(author, "given")
        family  == DictGet(author, "family")
    IN  IF Truthy(literal) THEN <<literal>>
        ELSE IF Truthy(given) /\ Truthy(family) THEN <<given, " ", family>>
        ELSE IF Truthy(given) THEN <<given>>
        ELSE IF Truthy(family) THEN <<family>>
        ELSE <<>>

\* the author part as the claim gives it
AuthorsAsClaimed(entry) ==
    LET names == IF "author" \in DOMAIN entry
                 THEN SelectSeq([i \in 1..Len(entry.author) |-> NameAsClaimed(entry.author[i])],
                                LAMBDA n : n # <<>>)
                 ELSE <<>>
    IN  IF names = <<>> THEN <<"Unbekannt">> ELSE JoinWith(names, <<" and ">>)

\* C19: in a formatted reference the author part is the names joined with "and",
\* each the literal field or else "<given> <family>", and "Unbekannt" without
\* usable author data.
C19_GivenSpaceFamily ==
    ret.op = "bibliography" =>
        \A i \in 1..Len(ret.value) :
            \E key \in DOMAIN order :
                IsPrefix(<<"[">> \o PyStr(order[key]) \o <<"]", " ">>
                         \o AuthorsAsClaimed(get_reference(key)) \o <<", ">>,
                         ret.value[i])

\* --------------------------------------------------- claims on the Exporter

\* C20: convert hands the converter the document's content followed by a
\* literature heading and one bibliography line per source cited in the
\* document.
C20_ConvertAppendsCited ==
    exportCall.op = "convert" /\ NumbersInOrder(exportCall.markdown) # <<>> =>
        /\ IsPrefix(PyRStrip(exportCall.markdown) \o <<"\n", "\n", LiteratureHeading>>,
                    exportCall.out)
        /\ Len(exportCall.entries) = Cardinality(Range(NumbersInOrder(exportCall.markdown)))

\* C20, the part that holds: append_bibliography returns the markdown unchanged
\* only when there is no entry at all, and otherwise the content, the heading and
\* one line per entry
C20_UnchangedOnlyWithoutEntries ==
    exportCall.op # "none" =>
        IF exportCall.entries = <<>> THEN exportCall.out = exportCall.markdown
        ELSE /\ exportCall.out # exportCall.markdown
             /\ exportCall.out =
                   PyRStrip(exportCall.markdown) \o <<"\n", "\n", LiteratureHeading, "\n", "\n">>
                   \o JoinWith(exportCall.entries, <<"\n">>) \o <<"\n">>

\* ------------------------------------- claims on a session of the QueryEngine

\* every source a call of the session has cited
CitedEver == UNION {r.cited : r \in returned}

\* the positions of the bibliography entries that start with the number n
EntriesNumbered(bibliography, n) ==
    LET head == <<"[">> \o PyStr(n) \o <<"]", " ">>
    IN  {j \in 1..Len(bibliography) :
            /\ Len(bibliography[j]) >= Len(head)
            /\ SubSeq(bibliography[j], 1, Len(head)) = head}

\* s holds part as a substring
Contains(s, part) ==
    \E a \in 1..(Len(s) - Len(part) + 1) : SubSeq(s, a, a + Len(part) - 1) = part

\* the label the latest call put after the text of its i-th cited result
OwnLabel(i) ==
    LET r == CitedResults(lastCall)[i]
    IN  CitationLabel(PyStr(lastCall.citation_order[r.doc_id]), <<r.page>>)

\* the bibliography of the latest call has exactly one entry for every source
\* cited by it or by an earlier call, the rendering of that source under its number
C24_OneEntryPerCitedSource ==
    lastCall.made =>
        /\ Len(lastCall.bibliography) = Cardinality(CitedEver)
        /\ \A source_id \in CitedEver :
              /\ source_id \in DOMAIN lastCall.citation_order
              /\ Cardinality({j \in 1..Len(lastCall.bibliography) :
                     lastCall.bibliography[j] =
                         EntryLine(lastCall.citation_order[source_id],
                                   format_entry(get_reference(source_id)))}) = 1

\* no entry of the bibliography of one call is missing from that of the next call
C24_NoEntryLost ==
    prevCall.made /\ lastCall.made =>
        \A i \in 1..Len(prevCall.bibliography) :
            \E j \in 1..Len(lastCall.bibliography) :
                lastCall.bibliography[j] = prevCall.bibliography[i]

\* a call with given arguments has returned the same text every time
C24_SameTextEveryCall ==
    \A a, b \in returned : a.op = b.op /\ a.args = b.args => a.text = b.text

\* every label the latest call composed is in its text and has one entry
C24_OwnLabelsListed ==
    lastCall.made =>
        \A i \in 1..Len(CitedResults(lastCall)) :
            /\ Contains(lastCall.text, OwnLabel(i))
            /\ Cardinality(EntriesNumbered(lastCall.bibliography,
                     lastCall.citation_order[CitedResults(lastCall)[i].doc_id])) = 1

\* every citation number the text of the latest call holds has an entry
C24_NumbersInTextListed ==
    lastCall.made =>
        \A n \in Range(NumbersInOrder(lastCall.text)) :
            EntriesNumbered(lastCall.bibliography, n) # {}

\* C24, as it holds: across any sequence of ask and chapter calls on one
\* QueryEngine the bibliography a call returns has exactly one entry for every
\* source cited by that call or by an earlier one, it loses no entry from one
\* call to the next, every label the call composed has an entry in it, and a
\* call with given arguments returns the same text every time.
C24_RegistryAcrossCalls ==
    /\ C24_OneEntryPerCitedSource
    /\ C24_NoEntryLost
    /\ C24_OwnLabelsListed
    /\ C24_SameTextEveryCall

\* C24, as stated: the same, with an entry for every citation number that the
\* returned text holds.
C24_AsStated ==
    /\ C24_OneEntryPerCitedSource
    /\ C24_NoEntryLost
    /\ C24_NumbersInTextListed
    /\ C24_SameTextEveryCall

\* C24 witness: a call made before is made again after a different one; it cites
\* a source, and the bibliography also lists a source that only another call cited
C24_Witness ==
    /\ lastCall.made /\ prevCall.made /\ askedBefore
    /\ prevCall.op # lastCall.op \/ prevCall.args # lastCall.args
    /\ CitedBy(lastCall) # {}
    /\ CitedEver \ CitedBy(lastCall) # {}
    /\ Len(lastCall.bibliography) >= 2

\* ------------------------------------------------------------ specifications

\* a BibliographyManager under any sequence of calls
Init == InitBib /\ IdleChunker /\ IdleEncoder /\ IdleEngine
    /\ IdleReviewer /\ IdleFiles /\ IdleExporter

Next == NextBib

Spec == Init /\ [][Next]_vars

\* one chunk_text call, for any settings and any list of page records
InitChunkerSpec == InitChunker /\ InitBib /\ IdleEncoder /\ IdleEngine
    /\ IdleReviewer /\ IdleFiles /\ IdleExporter

SpecChunker == InitChunkerSpec /\ [][NextChunker]_vars

\* the same call, which goes on as long as it can take a step
SpecChunkerFair == SpecChunker /\ WF_vars(NextChunker)

\* a fallback backend under any sequence of encode calls
InitEncoderSpec == InitEncoder /\ InitBib /\ IdleChunker /\ IdleEngine
    /\ IdleReviewer /\ IdleFiles /\ IdleExporter

SpecEncoder == InitEncoderSpec /\ [][NextEncoder]_vars

\* the retrieval of one engine, for any loaded index, also one whose chunk file
\* has fewer chunks than the vector file has rows
InitSearchSpec == InitEngine /\ InitBib /\ IdleChunker /\ IdleEncoder
    /\ IdleReviewer /\ IdleFiles /\ IdleExporter

SpecSearch == InitSearchSpec /\ [][NextSearch]_vars

\* a QueryEngine under any sequence of ask and chapter calls
InitQuerySpec ==
    /\ InitEngine /\ Len(embeddings) <= MaxCorpus /\ settings_top_k = 5
    /\ InitBib /\ IdleChunker /\ IdleEncoder
    /\ IdleReviewer /\ IdleFiles /\ IdleExporter

SpecQuery == InitQuerySpec /\ [][NextQuery]_vars

\* the calls of one session on a QueryEngine, with their history
InitSessionSpec ==
    /\ InitSessionEngine
    /\ InitBib /\ IdleChunker /\ IdleEncoder
    /\ IdleReviewer /\ IdleFiles /\ IdleExporter

SpecSession == InitSessionSpec /\ [][NextSession]_vars

\* a Reviewer on any text under review() calls
InitReviewSpec ==
    /\ InitReviewer /\ InitBib /\ IdleChunker /\ IdleEncoder /\ IdleEngine
    /\ IdleFiles /\ IdleExporter

SpecReview == InitReviewSpec /\ [][NextReviewer]_vars

\* CITATION_PATTERN.fullmatch on any string
SpecPattern == InitReviewSpec /\ [][NextPattern]_vars

\* build() and load_embeddings() under the default Settings, for any files
InitFilesSpec ==
    /\ IdleChunker /\ IdleEncoder /\ InitFiles /\ InitBib /\ IdleEngine
    /\ IdleReviewer /\ IdleExporter

SpecFiles == InitFilesSpec /\ [][NextFiles]_vars

\* an Exporter under any sequence of calls
InitExportSpec ==
    /\ InitExporter /\ IdleChunker /\ IdleEncoder /\ IdleEngine
    /\ IdleReviewer /\ IdleFiles

SpecExport == InitExportSpec /\ [][NextExporter]_vars

====
